---- MODULE Spec2Model ----
(***************************************************************************)
(* Conway's Game of Life of robherley/game-of-life: the Board and Game of  *)
(* src/src/game.rs (seed codec, transition, terminal check), the SVG       *)
(* renderer of render.rs, the sqlite Store of db.rs and the request        *)
(* handlers of main.rs (axum, sqlite) and lib.rs (worker, KV).             *)
(*                                                                         *)
(* Grids are sequences of rows, rows are sequences of BOOLEAN.  The Rust   *)
(* code indexes from 0; the operators below take the code's 0-based        *)
(* indices and read the 1-based TLA+ sequences at index + 1.               *)
(*                                                                         *)
(* A char is its Unicode scalar value (a natural number); a string is a    *)
(* sequence of chars.  Byte lengths and byte offsets are computed from the *)
(* UTF-8 width of each char, as str::len and str::char_indices do.         *)
(***************************************************************************)
EXTENDS Integers, Sequences, FiniteSets, Bags

VARIABLES
    game,       \* the Game a caller owns: [board, generation, delta]
    wasTerminal,\* history: what is_terminal returned before the latest Game::next
    prev,       \* history: self.grid as Board::next read it during the latest call
    pc,         \* position of the run: "game", "rendered", "encode", "decode", "done", "panicked", "seed", "rejected", "server"
    source,     \* the Board handed to stringify, <<board>>; <<>> when the run starts from a seed
    seed,       \* the text handed to from_seed
    alive,      \* the three symbol options of the call
    dead,
    separator,
    result,     \* what from_seed returned
    rendered,   \* what render::svg returned, <<[opts, svg]>>; <<>> before a render
    backend,    \* the deployment: "sqlite" (main.rs, db.rs) or "kv" (lib.rs); "none" without a server
    store,      \* the games table or the KV namespace: name -> <<>> or <<stored value>>
    inflight,   \* bag of the requests that are between two accesses of the store
    started,    \* number of requests received so far
    event,      \* the latest step of a handler, with the response it sent
    created,    \* history: name -> number of create requests answered 201
    nexts,      \* history: name -> number of next=true renders answered 200
    seedGrid    \* history: name -> <<grid decoded from the seed of the latest 201 create>>

\* The variables of the HTTP server and its store.
serverVars == <<backend, store, inflight, started, event, created, nexts, seedGrid>>

\* The variables outside the engine and its codec.
hostVars == <<rendered, serverVars>>

engineVars == <<game, wasTerminal, prev, pc, source, seed, alive, dead, separator, result, rendered>>

vars == <<game, wasTerminal, prev, pc, source, seed, alive, dead, separator, result, hostVars>>

(***************************************************************************)
(* Bounds of the model.                                                    *)
(***************************************************************************)
MaxCells == 9        \* a game's board has at most this many cells (3 x 3 fits)
MaxGen == 3          \* Game::next is called at most this many times

MaxSourceCells == 4  \* a board handed to stringify has at most this many cells
MaxSeedLen == 4      \* a seed handed to from_seed has at most this many chars
MaxRequests == 4     \* the server receives at most this many requests

\* render.rs, TextOptions::new: '#', '.', newline
DefaultAlive == 35
DefaultDead == 46
DefaultSeparator == 10

\* The symbols and seed chars tried: the defaults (newline is whitespace)
\* and U+2588 FULL BLOCK, which takes 3 bytes in UTF-8.
Chars == {DefaultAlive, DefaultDead, DefaultSeparator, 9608}

Max(a, b) == IF a >= b THEN a ELSE b

(***************************************************************************)
(* game.rs: NEIGHBORS, Board::safe_get, Board::neighbors, Board::interact  *)
(***************************************************************************)
NEIGHBORS ==
    << <<-1, -1>>, <<-1, 0>>, <<-1, 1>>, <<0, 1>>,
       <<1, 1>>, <<1, 0>>, <<1, -1>>, <<0, -1>> >>

rows(self) == Len(self.grid)

\* Wraps out-of-range indices around the board (a toroidal board).
safe_get_wrapping(self, row, col) ==
    IF Len(self.grid) = 0 THEN FALSE
    ELSE LET r == self.grid[(row % Len(self.grid)) + 1]
         IN  IF Len(r) = 0 THEN FALSE ELSE r[(col % Len(r)) + 1]

safe_get(self, row, col) ==
    IF row < 0 \/ col < 0 THEN FALSE
    ELSE IF row < Len(self.grid)
         THEN IF col < Len(self.grid[row + 1])
              THEN self.grid[row + 1][col + 1]
              ELSE FALSE
         ELSE FALSE

\* Counts only the four orthogonal neighbours.
neighbors_orthogonal(self, row, col) ==
    Cardinality({i \in {2, 4, 6, 8} :
        safe_get(self, row + NEIGHBORS[i][1], col + NEIGHBORS[i][2])})

neighbors(self, row, col) ==
    Cardinality({i \in 1..Len(NEIGHBORS) :
        safe_get(self, row + NEIGHBORS[i][1], col + NEIGHBORS[i][2])})

\* A live cell with three live neighbours dies.
interact_overcrowded(self, row, col) ==
    LET n == neighbors(self, row, col)
        a == safe_get(self, row, col)
        next == IF n = 3 /\ ~a THEN TRUE
                ELSE IF n = 2 /\ a THEN TRUE
                ELSE FALSE
    IN  <<next, next # a>>

interact(self, row, col) ==
    LET n == neighbors(self, row, col)
        a == safe_get(self, row, col)
        next == IF n = 3 /\ ~a THEN TRUE
                ELSE IF n \in 0..1 /\ a THEN FALSE
                ELSE IF n \in 2..3 /\ a THEN TRUE
                ELSE FALSE
    IN  <<next, next # a>>

(***************************************************************************)
(* game.rs: Board::next.  The two nested loops, row-major; `next` starts   *)
(* as a clone of self.grid and every interact reads self.                  *)
(***************************************************************************)
RECURSIVE Board_next_loop_inplace(_, _, _, _, _)
\* Reads the neighbours from the grid being written instead of from self.
Board_next_loop_inplace(self, next, delta, row, col) ==
    IF row >= Len(self.grid) THEN [board |-> [grid |-> next], delta |-> delta]
    ELSE IF col >= Len(self.grid[row + 1])
         THEN Board_next_loop_inplace(self, next, delta, row + 1, 0)
         ELSE LET r == interact([grid |-> next], row, col)
              IN  Board_next_loop_inplace(self,
                      [next EXCEPT ![row + 1][col + 1] = r[1]],
                      IF r[2] THEN delta + 1 ELSE delta,
                      row, col + 1)

RECURSIVE Board_next_loop(_, _, _, _, _)
Board_next_loop(self, next, delta, row, col) ==
    IF row >= Len(self.grid) THEN [board |-> [grid |-> next], delta |-> delta]
    ELSE IF col >= Len(self.grid[row + 1])
         THEN Board_next_loop(self, next, delta, row + 1, 0)
         ELSE LET r == interact(self, row, col)
              IN  Board_next_loop(self,
                      [next EXCEPT ![row + 1][col + 1] = r[1]],
                      IF r[2] THEN delta + 1 ELSE delta,
                      row, col + 1)

\* The board after the call and the returned delta.  The code counts delta
\* in an i32 and Game::next casts it to usize; it is at most the number of
\* cells, far below 2^31 on the boards tried here.
Board_next(self) == Board_next_loop(self, self.grid, 0, 0, 0)

(***************************************************************************)
(* game.rs: Game::from, Game::next, Game::is_terminal                      *)
(***************************************************************************)
Game_from(board) == [board |-> board, generation |-> 0, delta |-> 0]

\* Adds the step's delta to the stored one.
Game_next_accumulating(self) ==
    LET r == Board_next(self.board)
    IN  [board |-> r.board, delta |-> self.delta + r.delta,
         generation |-> self.generation + 1]

\* Assigns the two counters the wrong way round.
Game_next_swapped(self) ==
    LET r == Board_next(self.board)
    IN  [board |-> r.board, delta |-> self.delta + 1,
         generation |-> r.delta]

\* Advances the board and the generation but leaves delta as it was.
Game_next_keeps_delta(self) ==
    LET r == Board_next(self.board)
    IN  [board |-> r.board, delta |-> self.delta,
         generation |-> self.generation + 1]

Game_next(self) ==
    LET r == Board_next(self.board)
    IN  [board |-> r.board, delta |-> r.delta,
         generation |-> self.generation + 1]

\* Forgets that a fresh game has seen no transition.
is_terminal_any_generation(self) == self.delta = 0

is_terminal(self) == self.generation # 0 /\ self.delta = 0

(***************************************************************************)
(* Text.  std's char::len_utf8, char::is_whitespace, str::len, str::trim,  *)
(* str::split(char) and str::char_indices, as from_seed calls them.        *)
(***************************************************************************)
len_utf8(c) ==
    IF c < 128 THEN 1 ELSE IF c < 2048 THEN 2 ELSE IF c < 65536 THEN 3 ELSE 4

\* Unicode White_Space
is_whitespace(c) ==
    c \in (9..13) \cup {32, 133, 160, 5760} \cup (8192..8202)
             \cup {8232, 8233, 8239, 8287, 12288}

\* str::len: the length in bytes
RECURSIVE str_len(_)
str_len(s) == IF s = <<>> THEN 0 ELSE len_utf8(Head(s)) + str_len(Tail(s))

RECURSIVE trim_start(_)
trim_start(s) ==
    IF s # <<>> /\ is_whitespace(Head(s)) THEN trim_start(Tail(s)) ELSE s

RECURSIVE trim_end(_)
trim_end(s) ==
    IF s # <<>> /\ is_whitespace(s[Len(s)])
    THEN trim_end(SubSeq(s, 1, Len(s) - 1))
    ELSE s

trim(s) == trim_end(trim_start(s))

\* The pieces between the separators, in order: always at least one piece.
RECURSIVE split_loop(_, _, _, _)
split_loop(s, sep, piece, pieces) ==
    IF s = <<>> THEN Append(pieces, piece)
    ELSE IF Head(s) = sep
         THEN split_loop(Tail(s), sep, <<>>, Append(pieces, piece))
         ELSE split_loop(Tail(s), sep, Append(piece, Head(s)), pieces)

split(s, sep) == split_loop(s, sep, <<>>, <<>>)

\* str::char_indices: each char with the byte offset it starts at
char_indices(s) == [k \in 1..Len(s) |-> <<str_len(SubSeq(s, 1, k - 1)), s[k]>>]

(***************************************************************************)
(* game.rs: Result<Board, BoardError>                                      *)
(***************************************************************************)
NoBoard == [grid |-> <<>>]
Ok(board) == [ok |-> TRUE, board |-> board, error |-> <<>>]
Err(e) == [ok |-> FALSE, board |-> NoBoard, error |-> e]
InvalidSeparator(c) == <<"InvalidSeparator", c>>
InvalidSeedCharacter(c, a, d) == <<"InvalidSeedCharacter", c, a, d>>
NoResult == Err(<<>>)

(***************************************************************************)
(* game.rs: Board::from_seed                                               *)
(***************************************************************************)
RECURSIVE max_len(_)
\* seeds.iter().map(|s| s.len()).max().unwrap_or(0)
max_len(seeds) ==
    IF seeds = <<>> THEN 0 ELSE Max(str_len(Head(seeds)), max_len(Tail(seeds)))

\* Takes every char that is not the alive symbol for a dead cell.
RECURSIVE from_seed_loop_lenient(_, _, _, _, _, _)
from_seed_loop_lenient(seeds, a, d, grid, row_idx, k) ==
    IF row_idx >= Len(seeds) THEN Ok([grid |-> grid])
    ELSE LET ci == char_indices(seeds[row_idx + 1])
         IN  IF k > Len(ci)
             THEN from_seed_loop_lenient(seeds, a, d, grid, row_idx + 1, 1)
             ELSE IF ci[k][2] = a
                  THEN from_seed_loop_lenient(seeds, a, d,
                           [grid EXCEPT ![row_idx + 1][ci[k][1] + 1] = TRUE],
                           row_idx, k + 1)
                  ELSE from_seed_loop_lenient(seeds, a, d, grid, row_idx, k + 1)

\* The two nested loops of from_seed; k walks char_indices of the row.
RECURSIVE from_seed_loop(_, _, _, _, _, _)
from_seed_loop(seeds, a, d, grid, row_idx, k) ==
    IF row_idx >= Len(seeds) THEN Ok([grid |-> grid])
    ELSE LET ci == char_indices(seeds[row_idx + 1])
         IN  IF k > Len(ci) THEN from_seed_loop(seeds, a, d, grid, row_idx + 1, 1)
             ELSE LET col_idx == ci[k][1]
                      cell == ci[k][2]
                  IN  IF cell = a
                      THEN from_seed_loop(seeds, a, d,
                               [grid EXCEPT ![row_idx + 1][col_idx + 1] = TRUE],
                               row_idx, k + 1)
                      ELSE IF cell # d
                           THEN Err(InvalidSeedCharacter(cell, a, d))
                           ELSE from_seed_loop(seeds, a, d, grid, row_idx, k + 1)

\* Checks the separator against the alive symbol only.
from_seed_alive_only(s, a, d, sep) ==
    IF sep = a THEN Err(InvalidSeparator(sep))
    ELSE LET seeds == split(trim(s), sep)
             cols == max_len(seeds)
             grid == [r \in 1..Len(seeds) |-> [c \in 1..cols |-> FALSE]]
         IN  from_seed_loop(seeds, a, d, grid, 0, 1)

\* Sizes every row by its own row-string instead of the longest one.
from_seed_ragged(s, a, d, sep) ==
    IF sep = a \/ sep = d THEN Err(InvalidSeparator(sep))
    ELSE LET seeds == split(trim(s), sep)
             grid == [r \in 1..Len(seeds) |->
                         [c \in 1..str_len(seeds[r]) |-> FALSE]]
         IN  from_seed_loop(seeds, a, d, grid, 0, 1)

from_seed(s, a, d, sep) ==
    IF sep = a \/ sep = d THEN Err(InvalidSeparator(sep))
    ELSE LET seeds == split(trim(s), sep)
             cols == max_len(seeds)
             grid == [r \in 1..Len(seeds) |-> [c \in 1..cols |-> FALSE]]
         IN  from_seed_loop(seeds, a, d, grid, 0, 1)

(***************************************************************************)
(* game.rs: Board::cols, Board::stringify.  cols indexes self.grid[0], so  *)
(* it panics on a board without rows, and stringify calls it first.        *)
(***************************************************************************)
cols_panics(self) == Len(self.grid) = 0

cols(self) == Len(self.grid[1])

RECURSIVE stringify_loop(_, _, _, _, _, _)
stringify_loop(self, a, d, sep, i, text) ==
    IF i >= Len(self.grid) THEN text
    ELSE LET row == self.grid[i + 1]
             cells == [c \in 1..Len(row) |-> IF row[c] THEN a ELSE d]
         IN  stringify_loop(self, a, d, sep, i + 1,
                 IF i < rows(self) - 1 THEN Append(text \o cells, sep)
                 ELSE text \o cells)

stringify(self, a, d, sep) == stringify_loop(self, a, d, sep, 0, <<>>)

(***************************************************************************)
(* render.rs: SVGOptions and svg.  The document is the sequence of         *)
(* elements the writer emits, each with the attributes the claims read;    *)
(* an attribute value or text is the string format! produces.              *)
(***************************************************************************)
DefaultCellSize == 20
DefaultStrokeWidth == 2

SVGOptions_new(cell_size) ==
    [cell_size |-> cell_size, stroke_width |-> DefaultStrokeWidth]

RECURSIVE to_string(_)
\* format!("{}", n) of a usize: its decimal digits, '0' is char 48
to_string(n) ==
    IF n < 10 THEN <<48 + n>> ELSE Append(to_string(n \div 10), 48 + (n % 10))

\* format!("t = {}, \u0394 = {}", generation, delta); U+0394 is char 916
caption(generation, delta) ==
    <<116, 32, 61, 32>> \o to_string(generation)
        \o <<44, 32, 916, 32, 61, 32>> \o to_string(delta)

rect(row, col, opts) ==
    [tag |-> "rect",
     x |-> to_string(col * opts.cell_size),
     y |-> to_string(row * opts.cell_size),
     width |-> to_string(opts.cell_size),
     height |-> to_string(opts.cell_size)]

\* Emits a rect for every cell, alive or dead.
RECURSIVE svg_cells_all(_, _, _, _, _)
svg_cells_all(board, opts, row, col, out) ==
    IF row >= Len(board.grid) THEN out
    ELSE IF col >= Len(board.grid[row + 1])
         THEN svg_cells_all(board, opts, row + 1, 0, out)
         ELSE svg_cells_all(board, opts, row, col + 1,
                            Append(out, rect(row, col, opts)))

\* The two nested loops over board.grid, row-major.
RECURSIVE svg_cells(_, _, _, _, _)
svg_cells(board, opts, row, col, out) ==
    IF row >= Len(board.grid) THEN out
    ELSE IF col >= Len(board.grid[row + 1])
         THEN svg_cells(board, opts, row + 1, 0, out)
         ELSE svg_cells(board, opts, row, col + 1,
                        IF board.grid[row + 1][col + 1]
                        THEN Append(out, rect(row, col, opts))
                        ELSE out)

svg(g, opts) ==
    LET board == g.board
        width == cols(board) * opts.cell_size
        height == rows(board) * opts.cell_size + 20
    IN  <<[tag |-> "svg", width |-> to_string(width), height |-> to_string(height)]>>
        \o svg_cells(board, opts, 0, 0, <<>>)
        \o <<[tag |-> "text", y |-> to_string(height - 5),
              content |-> caption(g.generation, g.delta)]>>

(***************************************************************************)
(* db.rs: the sqlite Store.  A row of the games table is                   *)
(* [board, generation, delta] with board the bytes of the board's text.    *)
(* zstd is lossless, so compress keeps the bytes of the text and           *)
(* decompress reads them back as UTF-8.                                    *)
(***************************************************************************)
\* String::as_bytes of one char: its UTF-8 encoding (up to 3 bytes here)
char_bytes(c) ==
    IF c < 128 THEN <<c>>
    ELSE IF c < 2048 THEN <<192 + (c \div 64), 128 + (c % 64)>>
    ELSE <<224 + (c \div 4096), 128 + ((c \div 64) % 64), 128 + (c % 64)>>

RECURSIVE as_bytes(_)
as_bytes(s) == IF s = <<>> THEN <<>> ELSE char_bytes(Head(s)) \o as_bytes(Tail(s))

RECURSIVE from_utf8(_)
\* String::from_utf8 on bytes that as_bytes produced
from_utf8(b) ==
    IF b = <<>> THEN <<>>
    ELSE IF b[1] < 128 THEN <<b[1]>> \o from_utf8(Tail(b))
    ELSE IF b[1] < 224
         THEN <<(b[1] - 192) * 64 + (b[2] - 128)>> \o from_utf8(SubSeq(b, 3, Len(b)))
         ELSE <<(b[1] - 224) * 4096 + (b[2] - 128) * 64 + (b[3] - 128)>>
                  \o from_utf8(SubSeq(b, 4, Len(b)))

compress(input) == as_bytes(input)

decompress(data) == from_utf8(data)

\* Display for Board: stringify with TextOptions::default()
Board_to_string(board) ==
    stringify(board, DefaultAlive, DefaultDead, DefaultSeparator)

\* Board::from_string(seed, TextOptions::default()): decodes with the default symbols
Board_from_string(text) ==
    from_seed(text, DefaultAlive, DefaultDead, DefaultSeparator)

TableRow(g) == [board |-> compress(Board_to_string(g.board)),
           generation |-> g.generation, delta |-> g.delta]

\* INSERT INTO games; the PRIMARY KEY on name rejects a second row
Store_create(db, name, g) ==
    IF db[name] # <<>> THEN [ok |-> FALSE, db |-> db]
    ELSE [ok |-> TRUE, db |-> [db EXCEPT ![name] = <<TableRow(g)>>]]

\* Writes the row of every name.
Store_update_all(db, name, g) == [n \in DOMAIN db |-> <<TableRow(g)>>]

\* UPDATE games SET ... WHERE name = ?; no row, no change
Store_update(db, name, g) ==
    IF db[name] = <<>> THEN db ELSE [db EXCEPT ![name] = <<TableRow(g)>>]

\* SELECT ... WHERE name = ?: <<>> for no row, else <<game>>
Store_find(db, name) ==
    IF db[name] = <<>> THEN <<>>
    ELSE LET row == db[name][1]
             r == Board_from_string(decompress(row.board))
         IN  <<[board |-> r.board, generation |-> row.generation,
                delta |-> row.delta]>>

(***************************************************************************)
(* lib.rs: the KV namespace "games" holds, under a name, the JSON document *)
(* of the Game; the document is the record [board, generation, delta].     *)
(***************************************************************************)
kv_put(db, name, g) == [db EXCEPT ![name] = <<g>>]

kv_get(db, name) == db[name]

(***************************************************************************)
(* The boards a game is built from: from_seed returns at least one row     *)
(* (split yields at least one piece) and rows of one common length.        *)
(***************************************************************************)
Shapes(minRows, maxCells) ==
    {p \in (minRows..maxCells) \X (0..maxCells) : p[1] * p[2] <= maxCells}

Grids(minRows, maxCells) ==
    UNION {[1..p[1] -> [1..p[2] -> BOOLEAN]] : p \in Shapes(minRows, maxCells)}

(***************************************************************************)
(* Spec: one Game, built from a board, advanced by Game::next.             *)
(***************************************************************************)
\* The runs of the engine alone have no server.
NoServer ==
    /\ backend = "none"
    /\ store = <<>>
    /\ inflight = EmptyBag
    /\ started = 0
    /\ event = <<>>
    /\ created = <<>>
    /\ nexts = <<>>
    /\ seedGrid = <<>>

Init ==
    /\ \E g \in Grids(1, MaxCells) :
          /\ game = Game_from([grid |-> g])
          /\ prev = g
    /\ pc = "game"
    /\ source = <<>>
    /\ seed = <<>>
    /\ alive = DefaultAlive
    /\ dead = DefaultDead
    /\ separator = DefaultSeparator
    /\ result = NoResult
    /\ rendered = <<>>
    /\ wasTerminal = FALSE
    /\ NoServer

GameNext ==
    /\ pc = "game"
    /\ game.generation < MaxGen
    /\ game' = Game_next(game)
    /\ prev' = game.board.grid
    /\ wasTerminal' = is_terminal(game)
    /\ UNCHANGED <<pc, source, seed, alive, dead, separator, result, hostVars>>

\* The cell sizes a render is asked for.
CellSizes == {3, DefaultCellSize}

\* A run ends with the game's owner rendering it once.
RenderSvg ==
    /\ pc = "game"
    /\ \E cs \in CellSizes :
          LET opts == SVGOptions_new(cs)
          IN  rendered' = <<[opts |-> opts, svg |-> svg(game, opts)]>>
    /\ pc' = "rendered"
    /\ UNCHANGED <<game, wasTerminal, prev, source, seed, alive, dead, separator, result, serverVars>>

Next == GameNext \/ RenderSvg

Spec == Init /\ [][Next]_vars

(***************************************************************************)
(* SpecCodec: one run of the seed codec.  It starts either from a board,   *)
(* which stringify encodes and from_seed decodes again, or from a seed,    *)
(* which from_seed decodes.                                                *)
(***************************************************************************)
Strings(maxLen) == UNION {[1..n -> Chars] : n \in 0..maxLen}

InitCodec ==
    /\ game = Game_from(NoBoard)
    /\ prev = <<>>
    /\ alive \in Chars
    /\ dead \in Chars
    /\ separator \in Chars
    /\ result = NoResult
    /\ rendered = <<>>
    /\ wasTerminal = FALSE
    /\ NoServer
    /\ \/ /\ pc = "encode"
          /\ \E g \in Grids(0, MaxSourceCells) : source = <<[grid |-> g]>>
          /\ seed = <<>>
       \/ /\ pc = "decode"
          /\ source = <<>>
          /\ seed \in Strings(MaxSeedLen)

Stringify ==
    /\ pc = "encode"
    /\ IF cols_panics(source[1])
       THEN pc' = "panicked" /\ seed' = seed
       ELSE pc' = "decode" /\ seed' = stringify(source[1], alive, dead, separator)
    /\ UNCHANGED <<game, wasTerminal, prev, source, alive, dead, separator, result, hostVars>>

FromSeed ==
    /\ pc = "decode"
    /\ result' = from_seed(seed, alive, dead, separator)
    /\ pc' = "done"
    /\ UNCHANGED <<game, wasTerminal, prev, source, seed, alive, dead, separator, hostVars>>

NextCodec == Stringify \/ FromSeed

SpecCodec == InitCodec /\ [][NextCodec]_vars

(***************************************************************************)
(* SpecSeeded: a game built from a seed and then stepped.  from_seed        *)
(* decodes the seed; a decoded board becomes a fresh game, which next then *)
(* advances; a rejected seed ends the run.                                 *)
(***************************************************************************)
InitSeeded ==
    /\ game = Game_from(NoBoard)
    /\ prev = <<>>
    /\ pc = "seed"
    /\ source = <<>>
    /\ seed \in Strings(MaxSeedLen)
    /\ alive \in Chars
    /\ dead \in Chars
    /\ separator \in Chars
    /\ result = NoResult
    /\ rendered = <<>>
    /\ wasTerminal = FALSE
    /\ NoServer

NewGame ==
    /\ pc = "seed"
    /\ result' = from_seed(seed, alive, dead, separator)
    /\ IF result'.ok
       THEN /\ game' = Game_from(result'.board)
            /\ prev' = result'.board.grid
            /\ pc' = "game"
       ELSE /\ pc' = "rejected"
            /\ UNCHANGED <<game, wasTerminal, prev>>
    /\ UNCHANGED <<wasTerminal, source, seed, alive, dead, separator, hostVars>>

NextSeeded == NewGame \/ GameNext

SpecSeeded == InitSeeded /\ [][NextSeeded]_vars

(***************************************************************************)
(* SpecServer: the HTTP server, either the axum server over the sqlite     *)
(* Store (main.rs, db.rs) or the worker over the KV namespace (lib.rs).    *)
(* Requests run concurrently; a step of a handler is the code up to and    *)
(* including its next access of the store.                                 *)
(***************************************************************************)
Names == {"a", "b"}

\* POST bodies with their symbol options: a 1 x 3 row that changes for two
\* generations, a single cell, two empty rows, and a seed with a bad char.
Bodies ==
    {[body |-> <<35, 35, 35>>, alive |-> DefaultAlive, dead |-> DefaultDead,
      separator |-> DefaultSeparator],
     [body |-> <<35>>, alive |-> DefaultAlive, dead |-> DefaultDead,
      separator |-> DefaultSeparator],
     [body |-> <<46>>, alive |-> DefaultAlive, dead |-> 9608, separator |-> 46],
     [body |-> <<9608>>, alive |-> DefaultAlive, dead |-> DefaultDead,
      separator |-> DefaultSeparator]}

NoEvent == [op |-> "none", name |-> "", next |-> FALSE, status |-> 0,
            generation |-> 0, delta |-> 0, loaded |-> <<>>, saved |-> <<>>]

Event(op, name, next, status, g, loaded, saved) ==
    [op |-> op, name |-> name, next |-> next, status |-> status,
     generation |-> g.generation, delta |-> g.delta,
     loaded |-> loaded, saved |-> saved]

Fail(op, name, next, status) ==
    Event(op, name, next, status, Game_from(NoBoard), <<>>, <<>>)

\* store.find(game) or kv.get(name).json::<Game>()
Load(name) ==
    IF backend = "sqlite" THEN Store_find(store, name) ELSE kv_get(store, name)

\* store.update(game, &board) or kv.put(name, &game)
Save(name, g) ==
    IF backend = "sqlite" THEN Store_update(store, name, g)
    ELSE kv_put(store, name, g)

InitServer ==
    /\ game = Game_from(NoBoard)
    /\ prev = <<>>
    /\ pc = "server"
    /\ source = <<>>
    /\ seed = <<>>
    /\ alive = DefaultAlive
    /\ dead = DefaultDead
    /\ separator = DefaultSeparator
    /\ result = NoResult
    /\ rendered = <<>>
    /\ wasTerminal = FALSE
    /\ backend \in {"sqlite", "kv"}
    /\ store = [n \in Names |-> <<>>]
    /\ inflight = EmptyBag
    /\ started = 0
    /\ event = NoEvent
    /\ created = [n \in Names |-> 0]
    /\ nexts = [n \in Names |-> 0]
    /\ seedGrid = [n \in Names |-> <<>>]

\* main.rs creator: the whole handler; its one access of the store is the INSERT.
Creator ==
    /\ backend = "sqlite"
    /\ started < MaxRequests
    /\ started' = started + 1
    /\ \E name \in Names, p \in Bodies :
          LET r == from_seed(p.body, p.alive, p.dead, p.separator)
              g == Game_from(r.board)
              c == Store_create(store, name, g)
          IN  IF ~r.ok
              THEN /\ event' = Fail("create", name, FALSE, 400)
                   /\ UNCHANGED <<store, created, seedGrid>>
              ELSE IF ~c.ok
              THEN /\ event' = Fail("create", name, FALSE, 409)
                   /\ UNCHANGED <<store, created, seedGrid>>
              ELSE /\ store' = c.db
                   /\ event' = Event("create", name, FALSE, 201, g, <<>>, <<g>>)
                   /\ created' = [created EXCEPT ![name] = @ + 1]
                   /\ seedGrid' = [seedGrid EXCEPT ![name] = <<r.board.grid>>]
    /\ UNCHANGED <<inflight, nexts, backend, engineVars>>

\* lib.rs create, up to the answer of kv.get(name).text()
CreateCheck ==
    /\ backend = "kv"
    /\ started < MaxRequests
    /\ started' = started + 1
    /\ \E name \in Names, p \in Bodies :
          LET r == from_seed(p.body, p.alive, p.dead, p.separator)
              game_exists == kv_get(store, name) # <<>>
          IN  IF ~r.ok
              THEN /\ event' = Fail("create", name, FALSE, 400)
                   /\ UNCHANGED inflight
              ELSE IF game_exists
              THEN /\ event' = Fail("create", name, FALSE, 409)
                   /\ UNCHANGED inflight
              ELSE /\ event' = Fail("check", name, FALSE, 0)
                   /\ inflight' = inflight (+) SetToBag(
                          {[op |-> "create", name |-> name,
                            game |-> Game_from(r.board)]})
    /\ UNCHANGED <<store, created, nexts, seedGrid, backend, engineVars>>

\* lib.rs create, from Game::from(board) and kv.put to the 201 response
CreatePut ==
    /\ \E q \in BagToSet(inflight) :
          /\ q.op = "create"
          /\ store' = kv_put(store, q.name, q.game)
          /\ inflight' = inflight (-) SetToBag({q})
          /\ event' = Event("create", q.name, FALSE, 201, q.game, <<>>, <<q.game>>)
          /\ created' = [created EXCEPT ![q.name] = @ + 1]
          /\ seedGrid' = [seedGrid EXCEPT ![q.name] = <<q.game.board.grid>>]
    /\ UNCHANGED <<started, nexts, backend, engineVars>>

\* render without next=true: load the game and answer with it
Render ==
    /\ started < MaxRequests
    /\ started' = started + 1
    /\ \E name \in Names :
          LET found == Load(name)
          IN  IF found = <<>>
              THEN event' = Fail("render", name, FALSE, 404)
              ELSE event' = Event("render", name, FALSE, 200, found[1], found, <<>>)
    /\ UNCHANGED <<store, inflight, created, nexts, seedGrid, backend, engineVars>>

\* render with next=true, up to the answer of store.find or kv.get
RenderFind ==
    /\ started < MaxRequests
    /\ started' = started + 1
    /\ \E name \in Names :
          LET found == Load(name)
          IN  IF found = <<>>
              THEN /\ event' = Fail("render", name, TRUE, 404)
                   /\ UNCHANGED inflight
              ELSE /\ event' = Fail("find", name, TRUE, 0)
                   /\ inflight' = inflight (+) SetToBag(
                          {[op |-> "render", name |-> name, game |-> found[1]]})
    /\ UNCHANGED <<store, created, nexts, seedGrid, backend, engineVars>>

\* render with next=true, from next() and store.update or kv.put to the response
RenderUpdate ==
    /\ \E q \in BagToSet(inflight) :
          /\ q.op = "render"
          /\ LET g == Game_next(q.game)
             IN  /\ store' = Save(q.name, g)
                 /\ event' = Event("render", q.name, TRUE, 200, g, <<q.game>>, <<g>>)
          /\ inflight' = inflight (-) SetToBag({q})
          /\ nexts' = [nexts EXCEPT ![q.name] = @ + 1]
    /\ UNCHANGED <<started, created, seedGrid, backend, engineVars>>

NextServer ==
    \/ Creator
    \/ CreateCheck
    \/ CreatePut
    \/ Render
    \/ RenderFind
    \/ RenderUpdate

SpecServer == InitServer /\ [][NextServer]_vars

(***************************************************************************)
(* Reference definitions the claims are stated with.  They are written     *)
(* from the rules of Life, not from the code's loops.                      *)
(***************************************************************************)
Cells(g) == {p \in (1..Len(g)) \X (1..(IF Len(g) = 0 THEN 0 ELSE Len(g[1]))) : TRUE}

AliveCells(g) == {p \in Cells(g) : g[p[1]][p[2]]}

\* The alive cells among the up to 8 in-bounds cells around p; nothing wraps.
AliveAround(g, p) ==
    {q \in AliveCells(g) :
        /\ q # p
        /\ q[1] - p[1] \in -1..1
        /\ q[2] - p[2] \in -1..1}

LifeSuccessor(g) ==
    [r \in 1..Len(g) |->
        [c \in 1..Len(g[r]) |->
            LET n == Cardinality(AliveAround(g, <<r, c>>))
            IN  IF g[r][c] THEN n \in {2, 3} ELSE n = 3]]

\* The number of positions at which two grids of one shape differ.
Changed(g, h) == Cardinality({p \in Cells(g) : g[p[1]][p[2]] # h[p[1]][p[2]]})

Column == << <<FALSE, TRUE, FALSE>>, <<FALSE, TRUE, FALSE>>, <<FALSE, TRUE, FALSE>> >>
Row == << <<FALSE, FALSE, FALSE>>, <<TRUE, TRUE, TRUE>>, <<FALSE, FALSE, FALSE>> >>

\* The alive cells of g are exactly one 2 x 2 block.
OnlyBlock(g) ==
    \E p \in Cells(g) :
        AliveCells(g) = {p, <<p[1], p[2] + 1>>, <<p[1] + 1, p[2]>>, <<p[1] + 1, p[2] + 1>>}

\* The only alive cell of g is the corner (0,0).
OnlyCorner(g) == AliveCells(g) = {<<1, 1>>}

Stepped == game.generation > 0

RECURSIVE max_chars(_)
\* The largest number of chars in a string of the sequence.
max_chars(ss) == IF ss = <<>> THEN 0 ELSE Max(Len(Head(ss)), max_chars(Tail(ss)))

(***************************************************************************)
(* C1: Board::next replaces the grid with the synchronous Life successor   *)
(* of the grid it read: 8 neighbours, out of bounds dead, birth on 3,      *)
(* survival on 2 or 3, every other cell dead.                              *)
(***************************************************************************)
C1_SynchronousLife == Stepped => game.board.grid = LifeSuccessor(prev)

\* The full 3 x 3 board: corners survive (3), edges and centre die (5, 8).
C1_Witness ==
    /\ game.generation = 1
    /\ prev = << <<TRUE, TRUE, TRUE>>, <<TRUE, TRUE, TRUE>>, <<TRUE, TRUE, TRUE>> >>
    /\ game.board.grid =
           << <<TRUE, FALSE, TRUE>>, <<FALSE, FALSE, FALSE>>, <<TRUE, FALSE, TRUE>> >>

(***************************************************************************)
(* C2: for a rectangular grid G and pairwise distinct alive, dead and      *)
(* separator symbols, from_seed(stringify(G)) succeeds and returns G.      *)
(* Stated of the grids with at least one cell and of alive and dead        *)
(* symbols that are not whitespace, so that the trimming of the seed takes *)
(* nothing away from the encoded text.                                     *)
(***************************************************************************)
C2_RoundTrip ==
    /\ pc = "done"
    /\ source # <<>>
    /\ Cells(source[1].grid) # {}
    /\ alive # dead /\ alive # separator /\ dead # separator
    /\ ~is_whitespace(alive) /\ ~is_whitespace(dead)
    => result.ok /\ result.board.grid = source[1].grid

(***************************************************************************)
(* C3 as stated: the column blinker becomes the row and the row becomes    *)
(* the column again, with delta 6 after each of the two steps.             *)
(***************************************************************************)
C3_BlinkerDeltaSix ==
    /\ Stepped /\ prev = Column => game.board.grid = Row /\ game.delta = 6
    /\ Stepped /\ prev = Row => game.board.grid = Column /\ game.delta = 6

(***************************************************************************)
(* C3 amended: the same oscillation, with delta 4 after each step (the     *)
(* centre cell stays alive; two cells die and two are born).               *)
(***************************************************************************)
C3_BlinkerDeltaFour ==
    /\ Stepped /\ prev = Column => game.board.grid = Row /\ game.delta = 4
    /\ Stepped /\ prev = Row => game.board.grid = Column /\ game.delta = 4

C3_Witness ==
    /\ game.generation = 2
    /\ prev = Row
    /\ game.board.grid = Column
    /\ game.delta = 4

(***************************************************************************)
(* C4 as stated: from_seed fails with InvalidSeparator, whatever the seed, *)
(* whenever alive = dead or the separator is the alive or the dead symbol. *)
(***************************************************************************)
C4_AnyCollisionRejected ==
    /\ pc = "done"
    /\ alive = dead \/ separator = alive \/ separator = dead
    => ~result.ok /\ result.error = InvalidSeparator(separator)

(***************************************************************************)
(* C4 amended: from_seed fails with InvalidSeparator, whatever the seed,   *)
(* whenever the separator is the alive or the dead symbol.                 *)
(***************************************************************************)
C4_SeparatorCollisionRejected ==
    /\ pc = "done"
    /\ separator = alive \/ separator = dead
    => ~result.ok /\ result.error = InvalidSeparator(separator)

\* A seed that would decode, rejected because the separator is the dead symbol.
C4_Witness ==
    /\ pc = "done"
    /\ seed = <<alive, dead, alive>>
    /\ separator = dead
    /\ alive # dead
    /\ result = Err(InvalidSeparator(separator))

(***************************************************************************)
(* C5: a game built from a seed has generation 0 and delta 0, and every    *)
(* Game::next adds exactly 1 to generation.                                *)
(***************************************************************************)
C5_GenerationCounts ==
    /\ game.generation = 0 /\ game.delta = 0
    /\ [][game' # game => game'.generation = game.generation + 1]_vars

C5_Witness == game.generation = MaxGen /\ game.delta > 0

(***************************************************************************)
(* C6: after Game::next, delta is the number of positions at which the     *)
(* grid before the call and the grid after it differ, whatever delta was   *)
(* before.                                                                 *)
(***************************************************************************)
C6_DeltaIsChangeCount == Stepped => game.delta = Changed(prev, game.board.grid)

\* The third step of a blinker: 4 cells change, after 4 and 4 before it.
C6_Witness ==
    /\ game.generation = 3
    /\ prev = Column
    /\ game.board.grid = Row
    /\ game.delta = 4

(***************************************************************************)
(* C7: is_terminal is true exactly when generation > 0 and the delta of    *)
(* the latest transition is 0, that is, when the latest transition changed *)
(* no cell; a fresh game is never terminal.                                *)
(***************************************************************************)
C7_TerminalIff ==
    /\ is_terminal(game) <=> (game.generation > 0 /\ game.delta = 0)
    /\ is_terminal(game) <=> (Stepped /\ Changed(prev, game.board.grid) = 0)
    /\ game.generation = 0 => ~is_terminal(game)

\* A fresh game on an all-dead 3 x 3 board.
C7_Witness ==
    /\ game.generation = 0
    /\ Len(game.board.grid) = 3
    /\ Len(game.board.grid[1]) = 3
    /\ AliveCells(game.board.grid) = {}
    /\ ~is_terminal(game)

(***************************************************************************)
(* C8: on a board whose only alive cells form a 2 x 2 block, Game::next    *)
(* leaves the grid unchanged, sets delta to 0 and makes is_terminal true.  *)
(***************************************************************************)
C8_BlockIsStable ==
    Stepped /\ OnlyBlock(prev) =>
        /\ game.board.grid = prev
        /\ game.delta = 0
        /\ is_terminal(game)

\* A block inside a 3 x 3 board, after the first step.
C8_Witness ==
    /\ game.generation = 1
    /\ Len(prev) = 3
    /\ Len(prev[1]) = 3
    /\ OnlyBlock(prev)
    /\ is_terminal(game)

(***************************************************************************)
(* C9: an accepted seed decodes to one row per row-string of the trimmed   *)
(* seed, each as long as the longest row-string counted in chars; cell     *)
(* (r, c) is alive exactly when the c-th char of row-string r is the alive *)
(* symbol, and cells past the end of a row-string are dead.                *)
(***************************************************************************)
RowStrings == split(trim(seed), separator)

LongestRowString == max_chars(RowStrings)

C10_CornerClipped ==
    /\ Cells(game.board.grid) # {} =>
          /\ neighbors(game.board, 0, 0) <= 3
          /\ neighbors(game.board, 0, 0) =
                Cardinality(AliveCells(game.board.grid)
                                \cap {<<1, 2>>, <<2, 1>>, <<2, 2>>})
    /\ Stepped /\ OnlyCorner(prev) => ~game.board.grid[1][1]

\* The lone corner of a 3 x 3 board, after the step that kills it.
C10_Witness ==
    /\ game.generation = 1
    /\ Len(prev) = 3
    /\ Len(prev[1]) = 3
    /\ OnlyCorner(prev)
    /\ ~game.board.grid[1][1]

(***************************************************************************)
(* C11: with a valid separator, a trimmed seed holding a char that is      *)
(* neither the alive symbol, the dead symbol nor the separator makes       *)
(* from_seed return InvalidSeedCharacter(c, alive, dead) for the first     *)
(* such char c, and no board.                                              *)
(***************************************************************************)
IsSeedChar(c) == c = alive \/ c = dead \/ c = separator

C11_InvalidCharRejected ==
    LET t == trim(seed)
        bad == {k \in 1..Len(t) : ~IsSeedChar(t[k])}
    IN  /\ pc = "done"
        /\ separator # alive /\ separator # dead
        /\ bad # {}
        => /\ ~result.ok
           /\ result.board = NoBoard
           /\ \E k \in bad :
                 /\ \A j \in bad : k <= j
                 /\ result.error = InvalidSeedCharacter(t[k], alive, dead)

\* The bad char comes after an alive cell of the first row was already set.
C11_Witness ==
    /\ pc = "done"
    /\ alive = DefaultAlive /\ dead = DefaultDead /\ separator = DefaultSeparator
    /\ seed = <<DefaultAlive, DefaultSeparator, 9608, DefaultAlive>>
    /\ result = Err(InvalidSeedCharacter(9608, alive, dead))

(***************************************************************************)
(* C12: from_seed works per char, not per byte: with an alive or dead      *)
(* symbol of more than one byte, the column count is the largest number of *)
(* chars in a row-string and the k-th char of a row-string decides         *)
(* column k of its row.                                                    *)
(***************************************************************************)
C12_PerCharacter ==
    /\ pc = "done"
    /\ result.ok
    /\ len_utf8(alive) > 1 \/ len_utf8(dead) > 1
    => \A r \in 1..Len(RowStrings) :
          /\ Len(result.board.grid[r]) = LongestRowString
          /\ \A k \in 1..Len(RowStrings[r]) :
                result.board.grid[r][k] = (RowStrings[r][k] = alive)

(***************************************************************************)
(* C13: stringify encodes a board without rows to the empty text without   *)
(* fault, and from_seed decodes the empty seed to a board without rows.    *)
(***************************************************************************)
C13_EmptyBoard ==
    /\ source # <<>> /\ source[1].grid = <<>> /\ pc # "encode"
          => pc # "panicked" /\ seed = <<>>
    /\ pc = "done" /\ seed = <<>> /\ separator # alive /\ separator # dead
          => result.ok /\ result.board.grid = <<>>

(***************************************************************************)
(* C14: in every state reached by from_seed followed by any number of next *)
(* calls the grid is rectangular (all rows have one length), and next      *)
(* leaves the number of rows and the number of columns as they were.       *)
(***************************************************************************)
Rectangular(g) == \A r \in 1..Len(g) : Len(g[r]) = Len(g[1])

C14_ShapeKept ==
    pc = "game" =>
        /\ Rectangular(game.board.grid)
        /\ Len(game.board.grid) = Len(result.board.grid)
        /\ Len(game.board.grid) = Len(prev)
        /\ \A r \in 1..Len(prev) : Len(game.board.grid[r]) = Len(prev[r])
        /\ \A r \in 1..Len(prev) :
              Len(game.board.grid[r]) = Len(result.board.grid[r])

\* Two row-strings of different lengths, padded to 2 x 2 and stepped twice.
C14_Witness ==
    /\ pc = "game"
    /\ seed = <<alive, alive, separator, alive>>
    /\ game.generation = 2
    /\ Len(game.board.grid) = 2
    /\ Len(game.board.grid[2]) = 2

(***************************************************************************)
(* C16: render::svg emits one rect per alive cell and none for a dead      *)
(* cell, the rect of cell (row, col) at x = col * cell_size and            *)
(* y = row * cell_size, on a canvas of width cols * cell_size and height   *)
(* rows * cell_size + 20, and one caption "t = {generation}, D = {delta}"  *)
(* (D the Greek capital delta); a fresh all-dead board renders to no rect  *)
(* and the caption "t = 0, D = 0".                                         *)
(***************************************************************************)
Elements(doc, tag) == {i \in 1..Len(doc) : doc[i].tag = tag}

C16_SvgDocument ==
    pc = "rendered" =>
        LET doc == rendered[1].svg
            cs == rendered[1].opts.cell_size
            g == game.board.grid
            rects == Elements(doc, "rect")
            texts == Elements(doc, "text")
        IN  /\ Cardinality(rects) = Cardinality(AliveCells(g))
            /\ \A p \in AliveCells(g) :
                  Cardinality({i \in rects :
                      /\ doc[i].x = to_string((p[2] - 1) * cs)
                      /\ doc[i].y = to_string((p[1] - 1) * cs)}) = 1
            /\ \A i \in rects :
                  doc[i].width = to_string(cs) /\ doc[i].height = to_string(cs)
            /\ Elements(doc, "svg") = {1}
            /\ doc[1].width = to_string(Len(g[1]) * cs)
            /\ doc[1].height = to_string(Len(g) * cs + 20)
            /\ Cardinality(texts) = 1
            /\ \A i \in texts :
                  doc[i].content = caption(game.generation, game.delta)
            /\ (game.generation = 0 /\ AliveCells(g) = {}) =>
                  /\ rects = {}
                  /\ \A i \in texts :
                        doc[i].content =
                            <<116, 32, 61, 32, 48, 44, 32, 916, 32, 61, 32, 48>>

\* A stepped 2 x 3 board with three alive cells rendered at the default cell
\* size; the cell of row 1, column 2 is drawn at x = "40", y = "20".
C16_Witness ==
    /\ pc = "rendered"
    /\ rendered[1].opts.cell_size = DefaultCellSize
    /\ game.generation = 1 /\ game.delta = 1
    /\ game.board.grid = <<<<FALSE, TRUE, TRUE>>, <<FALSE, FALSE, TRUE>>>>
    /\ Cardinality(Elements(rendered[1].svg, "rect")) = 3
    /\ \E i \in Elements(rendered[1].svg, "rect") :
          rendered[1].svg[i].x = <<52, 48>> /\ rendered[1].svg[i].y = <<50, 48>>

(***************************************************************************)
(* C15: a game handed to Store::create or Store::update is what            *)
(* Store::find returns afterwards: the same grid, generation and delta.    *)
(***************************************************************************)
C15_StoreRoundTrip ==
    backend = "sqlite" /\ event.saved # <<>> =>
        Store_find(store, event.name) = event.saved

(***************************************************************************)
(* C17: a render request without next=true leaves the stored record of     *)
(* every name as it was; a render request with next=true that succeeds     *)
(* replaces the stored record of its name only, by one transition of the   *)
(* record it loaded, and its response carries the generation and delta of  *)
(* that transition's result.                                               *)
(***************************************************************************)
\* What Store::update or kv.put writes for a game.
Stored(g) == IF backend = "sqlite" THEN TableRow(g) ELSE g

C17_RenderEffect ==
    [][/\ (event'.op = "render" /\ ~event'.next) => store' = store
       /\ (event'.op = "render" /\ event'.next /\ event'.status = 200) =>
             LET after == Game_next(event'.loaded[1])
             IN  /\ \A n \in Names \ {event'.name} : store'[n] = store[n]
                 /\ store'[event'.name] = <<Stored(after)>>
                 /\ event'.generation = after.generation
                 /\ event'.generation = event'.loaded[1].generation + 1
                 /\ event'.delta = after.delta]_vars

\* A next=true render of "a" has answered while "b" holds a game of its own.
C17_Witness ==
    /\ event.op = "render" /\ event.next /\ event.status = 200
    /\ event.name = "a"
    /\ event.generation = 1 /\ event.delta = 2
    /\ store["b"] # <<>>
    /\ store["b"] # store["a"]

(***************************************************************************)
(* C18: under every interleaving of create and render requests on a name,  *)
(* the stored record agrees with its seed: the stored grid is the Life     *)
(* rule applied generation times to the grid decoded from the seed, and    *)
(* for generation > 0 the stored delta is the number of cells the last of  *)
(* these transitions changed.                                              *)
(***************************************************************************)
RECURSIVE LifeIter(_, _)
LifeIter(g, n) == IF n = 0 THEN g ELSE LifeSuccessor(LifeIter(g, n - 1))

C18_ConsistentWithSeed ==
    \A n \in Names :
        Load(n) # <<>> =>
            LET rec == Load(n)[1]
                s == seedGrid[n][1]
            IN  /\ rec.board.grid = LifeIter(s, rec.generation)
                /\ rec.generation > 0 =>
                      rec.delta = Changed(LifeIter(s, rec.generation - 1),
                                          LifeIter(s, rec.generation))

(***************************************************************************)
(* C19: under every interleaving of next=true render requests on a board,  *)
(* every request answered 200 advances the stored board by one generation: *)
(* after n of them the stored generation is n.                             *)
(***************************************************************************)
C19_EveryNextCounts ==
    \A n \in Names :
        Load(n) # <<>> => Load(n)[1].generation = nexts[n]

(***************************************************************************)
(* C20: for a name at most one create request is ever answered 201.        *)
(***************************************************************************)
C20_OneCreate == \A n \in Names : created[n] <= 1

(***************************************************************************)
(* C21: terminal is absorbing: once is_terminal is true, every further     *)
(* Game::next leaves the grid unchanged and sets delta to 0, so            *)
(* is_terminal is true again after it.                                     *)
(***************************************************************************)
C21_TerminalAbsorbing ==
    [][(is_terminal(game) /\ game' # game) =>
          /\ game'.generation = game.generation + 1
          /\ game'.board.grid = game.board.grid
          /\ game'.delta = 0
          /\ is_terminal(game')]_vars

\* A 3 x 3 board with a 2 x 2 block: the game was terminal at generation 2
\* and a third next has run.
C21_Witness ==
    /\ game.generation = 3
    /\ wasTerminal
    /\ is_terminal(game)
    /\ prev = game.board.grid
    /\ Cardinality(Cells(prev)) = 9
    /\ OnlyBlock(prev)

====
